---- MODULE Spec2Model ----
(***************************************************************************)
(* SnapZen Pro: the background index build (indexer.py, CentroidIndexTask), *)
(* the plugin that adopts its result (plugin.py, SnapZenProPlugin) and the  *)
(* map tool that resolves snaps (snap_tool.py, SnapZenProTool).             *)
(*                                                                         *)
(* Coordinates are integers counting units of 1e-7, so that rounding to 6  *)
(* decimal digits (indexer.py:318) is a real computation: Round6 maps a    *)
(* coordinate to an integer counting units of 1e-6.                        *)
(*                                                                         *)
(* A dict (id_to_point, point_lookup) and the spatial index are sets of    *)
(* <<id, point>> entries.  A bundle object is a number: 0 is the bundle    *)
(* the plugin constructs (plugin.py:27), t is the bundle task t constructs *)
(* (indexer.py:61); `bundles` is the heap holding their fields.            *)
(***************************************************************************)
EXTENDS Integers, Sequences, FiniteSets, TLC

VARIABLES
    project,        \* QgsProject.instance().mapLayers().values(): a sequence of layers
    insertFailAt,   \* the ordinals of the insertFeature calls of a run that raise
    ui,             \* the state of the dock's widgets
    tool,           \* SnapZenProPlugin.tool
    index_bundle,   \* SnapZenProPlugin.index_bundle (a bundle object)
    bundles,        \* the IndexBundle objects: a sequence, bundle b is bundles[b + 1]
    tasks,          \* the CentroidIndexTask objects, in the order they were created
    canvas,         \* iface.mapCanvas(): its map units per pixel
    history,        \* the pointer moves delivered to the tool and the resolutions run
    store           \* the QSettings store the dock loads from and saves to

vars == <<project, insertFailAt, ui, tool, index_bundle, bundles, tasks,
          canvas, history, store>>

-----------------------------------------------------------------------------
(* Bounds of the model *)

\* builds started in one behaviour of the plugin
MaxTasks == 2
\* insertFeature calls of a run, counted from the first, that may raise
MaxInsertFail == 2
\* layers of a project that are not in the plain condition "ok"
MaxOddLayers == 1
\* pointer moves delivered to a tool in one behaviour
MaxMoves == 2

-----------------------------------------------------------------------------
(* The world a run reads: points, features, layers *)

NoPoint == <<>>

PA == <<1, 4>>
PB == <<3, 2>>
PC == <<21, 4>>
PD == <<11, 14>>
PE == <<21, 24>>
PF == <<1, 24>>

\* the vertices of a polygon's ring as the geometry holds them: the corners,
\* then the closing vertex, which repeats the first
Ring(corners) == Append(corners, corners[1])

\* the points whose transformation raises under a transformer that can fail
BadTransformPoints == {PA}

\* a feature: what geometry.vertices() yields, the centroid, whether the
\* geometry is null or empty, whether the feature lies in the viewport extent
\* (in_extent) and whether it lies in the rectangle with the extent's numbers
\* read in the layer's own frame (raw_in_extent)
Feat(verts, centroid, empty, inx, rawx) ==
    [verts |-> verts, centroid |-> centroid, empty |-> empty,
     in_extent |-> inx, raw_in_extent |-> rawx]

BaseIds == {"parcels", "wells", "notes"}

BaseWkb(id) ==
    CASE id = "parcels" -> "polygon"
      [] id = "wells" -> "point"
      [] OTHER -> "point"

BaseCrs(id) == IF id = "wells" THEN "other" ELSE "map"

BaseFeatures(id) ==
    CASE id = "parcels" -> << Feat(Ring(<<PA, PC, PE, PF>>), PD, FALSE, TRUE, TRUE) >>
      [] id = "wells" -> << Feat(<<PA, PF>>, PA, FALSE, TRUE, TRUE),
                            Feat(<<PB>>, PB, FALSE, TRUE, FALSE) >>
      [] OTHER -> << Feat(<<>>, NoPoint, TRUE, TRUE, TRUE),
                     Feat(<<PB>>, PB, FALSE, TRUE, TRUE),
                     Feat(<<PD>>, PD, FALSE, FALSE, FALSE) >>

\* what distinguishes a layer from a plain visible valid vector layer: an
\* attribute, or the one external call on it that raises
Conditions ==
    {"ok", "hidden", "raster", "invalid", "nogeom",
     "id_raises", "isValid_raises", "wkbType_raises", "crs_raises",
     "ctor_raises", "extent_raises", "iter_raises", "iter_name_raises",
     "geometry_raises", "vertices_raises", "centroid_raises",
     "transform_raises"}

Layer(id, cond) == [id |-> id, cond |-> cond]

Layers == {Layer(id, c) : id \in BaseIds, c \in Conditions}

TargetCrs == "map"

\* the forward transform of a layer in the other frame: a shift by 1e-6 in x
Forward(p) == <<p[1] + 10, p[2]>>

RECURSIVE IdSeqs(_)
\* the sequences of n distinct base ids
IdSeqs(n) ==
    IF n = 0 THEN {<<>>}
    ELSE {Append(s, id) : s \in IdSeqs(n - 1), id \in BaseIds} \ 
         {Append(s, s[i]) : s \in IdSeqs(n - 1), i \in 1..(n - 1)}

\* the projects of the model: layers with distinct ids in any order, at most
\* MaxOddLayers of them not "ok"
Projects ==
    UNION {
      UNION {
        { [i \in 1..n |-> Layer(ids[i], IF i \in odd THEN cs[i] ELSE "ok")] :
            cs \in [odd -> Conditions \ {"ok"}] } :
          odd \in {o \in SUBSET (1..n) : Cardinality(o) <= MaxOddLayers},
          ids \in IdSeqs(n) } :
      n \in 0..Cardinality(BaseIds) }

-----------------------------------------------------------------------------
(* IndexBundle (indexer.py:27-49) *)

\* a QgsSpatialIndex or None: present is FALSE for None
NoIndex == [present |-> FALSE, entries |-> {}]

SomeIndex(entries) == [present |-> TRUE, entries |-> entries]

\* IndexBundle(): point_index None, id_to_point an empty dict
NewBundle == [point_index |-> NoIndex, id_to_point |-> {}]

\* IndexBundle.clear
Clear(b) == [b EXCEPT !.point_index = NoIndex, !.id_to_point = {}]

\* IndexBundle.is_empty
IsEmpty(b) == b.id_to_point = {}

\* d[k] = v on a dict held as a set of <<key, value>> entries
Put(d, k, v) == {e \in d : e[1] # k} \cup {<<k, v>>}

Keys(d) == {e[1] : e \in d}

-----------------------------------------------------------------------------
(* The helpers of CentroidIndexTask *)

\* round(x, 6) of a coordinate held in units of 1e-7: the nearest multiple of
\* ten, a tie going to the even one
Round6(n) ==
    LET q == n \div 10
        r == n % 10
    IN IF r < 5 THEN q
       ELSE IF r > 5 THEN q + 1
       ELSE IF q % 2 = 0 THEN q ELSE q + 1

\* a key that keeps the coordinates as they are
PointKeyExact(point) == point

\* _point_key
PointKey(point) == <<Round6(point[1]), Round6(point[2])>>

\* QgsCoordinateTransform or None; bad: the points whose transform raises
NoTransform == [present |-> FALSE, bad |-> {}]

\* _transform_point that returns the point as it is when the transform raises
TransformPointKeepsRaw(transformer, point) ==
    IF point = NoPoint THEN NoPoint
    ELSE IF ~transformer.present THEN point
    ELSE IF point \in transformer.bad THEN point
    ELSE Forward(point)

\* _transform_point
TransformPoint(transformer, point) ==
    IF point = NoPoint THEN NoPoint
    ELSE IF ~transformer.present THEN point
    ELSE IF point \in transformer.bad THEN NoPoint
    ELSE Forward(point)

\* whether the insertFeature call number ord of a run raises
InsertRaises(ord) == ord \in insertFailAt

\* what the run's history records of one call of _remember_point with a point
Seen(point, outcome, id) == [point |-> point, outcome |-> outcome, id |-> id]

\* _remember_point without the return of line 218: the point is entered in
\* id_lookup also when insertFeature raised
RememberPointNoReturn(st, point) ==
    IF point = NoPoint THEN st
    ELSE LET key == <<Round6(point[1]), Round6(point[2])>>
             feature_id == st.id_counter
             ord == Cardinality({i \in 1..Len(st.seen) : st.seen[i].outcome # "dup"}) + 1
         IN IF key \in st.used_keys
            THEN [st EXCEPT !.seen = Append(@, Seen(point, "dup", -1))]
            ELSE IF InsertRaises(ord)
            THEN [st EXCEPT
                    !.id_counter = @ + 1,
                    !.point_lookup = Put(@, feature_id, point),
                    !.seen = Append(@, Seen(point, "raised", feature_id))]
            ELSE [st EXCEPT
                    !.used_keys = @ \cup {key},
                    !.id_counter = @ + 1,
                    !.generated_index = @ \cup {<<feature_id, point>>},
                    !.point_lookup = Put(@, feature_id, point),
                    !.seen = Append(@, Seen(point, "ok", feature_id))]

\* _remember_point taking len(id_lookup) for the id instead of the counter
RememberPointLenId(st, point) ==
    IF point = NoPoint THEN st
    ELSE LET key == <<Round6(point[1]), Round6(point[2])>>
             feature_id == Cardinality(st.point_lookup)
             ord == Cardinality({i \in 1..Len(st.seen) : st.seen[i].outcome # "dup"}) + 1
         IN IF key \in st.used_keys
            THEN [st EXCEPT !.seen = Append(@, Seen(point, "dup", -1))]
            ELSE IF InsertRaises(ord)
            THEN [st EXCEPT
                    !.id_counter = @ + 1,
                    !.seen = Append(@, Seen(point, "raised", feature_id))]
            ELSE [st EXCEPT
                    !.used_keys = @ \cup {key},
                    !.id_counter = @ + 1,
                    !.generated_index = @ \cup {<<feature_id, point>>},
                    !.point_lookup = Put(@, feature_id, point),
                    !.seen = Append(@, Seen(point, "ok", feature_id))]

\* _remember_point on the locals of the run, held in the task record st.
\* seen is the history of the calls with a point: "dup" for a key already
\* used, "raised" and "ok" for the two ends of insertFeature
RememberPoint(st, point) ==
    IF point = NoPoint THEN st
    ELSE LET key == PointKey(point)
             feature_id == st.id_counter
             ord == Cardinality({i \in 1..Len(st.seen) : st.seen[i].outcome # "dup"}) + 1
         IN IF key \in st.used_keys
            THEN [st EXCEPT !.seen = Append(@, Seen(point, "dup", -1))]
            ELSE IF InsertRaises(ord)
            THEN [st EXCEPT
                    !.id_counter = @ + 1,
                    !.seen = Append(@, Seen(point, "raised", feature_id))]
            ELSE [st EXCEPT
                    !.used_keys = @ \cup {key},
                    !.id_counter = @ + 1,
                    !.generated_index = @ \cup {<<feature_id, point>>},
                    !.point_lookup = Put(@, feature_id, point),
                    !.seen = Append(@, Seen(point, "ok", feature_id))]

\* layer.wkbType() and QgsWkbTypes.geometryType of it
GeometryType(layer) == IF layer.cond = "nogeom" THEN "none" ELSE BaseWkb(layer.id)

\* _fallback_vertices: the kind-specific extraction
FallbackVertices(geom) == IF geom.empty THEN <<>> ELSE geom.verts

\* _geometry_vertices: the vertex walk, or the fallback when the walk raises
GeometryVertices(geom, layer) ==
    IF layer.cond = "vertices_raises" THEN FallbackVertices(geom) ELSE geom.verts

\* _geometry_centroid
GeometryCentroid(geom, layer) ==
    IF layer.cond = "centroid_raises" THEN NoPoint ELSE geom.centroid

\* _iter_points without the test of line 226: the centroid for every kind
IterPointsAnyKind(geom, layer) ==
    GeometryVertices(geom, layer) \o
    (IF GeometryCentroid(geom, layer) # NoPoint
     THEN <<GeometryCentroid(geom, layer)>>
     ELSE <<>>)

\* _iter_points: the vertices, then the centroid on a polygon layer
IterPoints(geom, layer) ==
    GeometryVertices(geom, layer) \o
    (IF GeometryType(layer) = "polygon" /\ GeometryCentroid(geom, layer) # NoPoint
     THEN <<GeometryCentroid(geom, layer)>>
     ELSE <<>>)

\* the loop of run, lines 96-104, over the points of one feature
RECURSIVE RememberAll(_, _, _)
RememberAll(st, transformer, points) ==
    IF points = <<>> THEN st
    ELSE RememberAll(RememberPoint(st, TransformPoint(transformer, Head(points))),
                     transformer, Tail(points))

\* _layer_if_candidate without the test of isValid (lines 138-139)
LayerIfCandidateNoValidTest(layer, visible_ids) ==
    IF layer.cond = "id_raises" THEN "raise"
    ELSE IF layer.id \notin visible_ids THEN "none"
    ELSE IF layer.cond = "raster" THEN "none"
    ELSE IF layer.cond = "wkbType_raises" THEN "none"
    ELSE IF GeometryType(layer) = "none" THEN "none"
    ELSE "layer"

\* _layer_if_candidate: "raise" when a probe outside a try raises, "none"
\* when the layer is no candidate, "layer" when it is
LayerIfCandidate(layer, visible_ids) ==
    IF layer.cond = "id_raises" THEN "raise"
    ELSE IF layer.id \notin visible_ids THEN "none"
    ELSE IF layer.cond = "raster" THEN "none"
    ELSE IF layer.cond = "isValid_raises" THEN "raise"
    ELSE IF layer.cond = "invalid" THEN "none"
    ELSE IF layer.cond = "wkbType_raises" THEN "none"
    ELSE IF GeometryType(layer) = "none" THEN "none"
    ELSE "layer"

\* _prepare_layer_context in which a transform is taken as built also when
\* its construction raised
PrepareLayerContextCtorIgnored(layer) ==
    IF layer.cond = "crs_raises"
    THEN [raised |-> TRUE, transformer |-> NoTransform, request |-> "none"]
    ELSE LET built == BaseCrs(layer.id) # TargetCrs
             transformer ==
                 IF built
                 THEN [present |-> TRUE,
                       bad |-> IF layer.cond = "transform_raises"
                               THEN BadTransformPoints ELSE {}]
                 ELSE NoTransform
             request ==
                 IF layer.cond = "extent_raises" THEN "none"
                 ELSE IF built \/ BaseCrs(layer.id) = TargetCrs THEN "layer_frame"
                 ELSE "map_frame"
         IN [raised |-> FALSE, transformer |-> transformer, request |-> request]

\* _prepare_layer_context: raised when layer.crs() raises, else the transformer
\* and the request, which is the filter getFeatures applies: "none", the extent
\* in the layer's frame ("layer_frame") or the viewport's numbers unconverted
\* ("map_frame")
PrepareLayerContext(layer) ==
    IF layer.cond = "crs_raises"
    THEN [raised |-> TRUE, transformer |-> NoTransform, request |-> "none"]
    ELSE LET built == BaseCrs(layer.id) # TargetCrs /\ layer.cond # "ctor_raises"
             transformer ==
                 IF built
                 THEN [present |-> TRUE,
                       bad |-> IF layer.cond = "transform_raises"
                               THEN BadTransformPoints ELSE {}]
                 ELSE NoTransform
             request ==
                 IF layer.cond = "extent_raises" THEN "none"
                 ELSE IF built \/ BaseCrs(layer.id) = TargetCrs THEN "layer_frame"
                 ELSE "map_frame"
         IN [raised |-> FALSE, transformer |-> transformer, request |-> request]

\* layer.getFeatures(request): the features the iterator yields
GetFeatures(layer, request) ==
    LET all == BaseFeatures(layer.id)
    IN SelectSeq(all, LAMBDA f :
           \/ request = "none"
           \/ request = "layer_frame" /\ f.in_extent
           \/ request = "map_frame" /\ f.raw_in_extent)

\* the fetch (counted from 1) at which the feature iterator of a layer raises,
\* 0 when it never does: after the first feature has been yielded
IterRaisesAt(layer) ==
    IF layer.cond \in {"iter_raises", "iter_name_raises"} THEN 2 ELSE 0

\* {layer.id() for layer in canvas.layers()}
VisibleIds(layers) ==
    {layers[i].id : i \in {j \in 1..Len(layers) : layers[j].cond # "hidden"}}

-----------------------------------------------------------------------------
(* CentroidIndexTask: construction and run (indexer.py:57-119) *)

\* a task as __init__ leaves it, with the locals run creates at lines 75-79.
\* pc is the place of the run: "start", "layers" (at the for of line 81),
\* "features" (at the for of line 88), "map" (line 111, point_index assigned
\* and id_to_point not yet), then how run ended: "true", "false" or "raised";
\* "handled" once finished() and the plugin's slot have run, after which
\* nothing holds the task any more
\* a task whose ids are drawn from a counter the tasks share
NewTaskSharedCounter ==
    [pc |-> "start", canceled |-> FALSE,
     layers |-> <<>>, visible_ids |-> {}, li |-> 1,
     layer |-> 0, transformer |-> NoTransform, feats |-> <<>>, fetched |-> 0,
     used_keys |-> {}, id_counter |-> Len(tasks), generated_index |-> {},
     point_lookup |-> {}, collected_errors |-> <<>>,
     errors |-> <<>>, seen |-> <<>>]

NewTask ==
    [pc |-> "start", canceled |-> FALSE,
     layers |-> <<>>, visible_ids |-> {}, li |-> 1,
     layer |-> 0, transformer |-> NoTransform, feats |-> <<>>, fetched |-> 0,
     used_keys |-> {}, id_counter |-> 0, generated_index |-> {},
     point_lookup |-> {}, collected_errors |-> <<>>,
     errors |-> <<>>, seen |-> <<>>]

TaskIds == 1..Len(tasks)

\* a task that is given the plugin's active bundle to fill
ActiveBundle(t) == index_bundle

\* the IndexBundle object a task holds in result_bundle
ResultBundle(t) == t

Bundle(b) == bundles[b + 1]

SetTask(t, rec) == tasks' = [tasks EXCEPT ![t] = rec]

\* the run ends: pc says how, and the locals of run are gone; what the task
\* keeps is its attributes and the history of the run (layers, visible_ids,
\* seen)
EndRun(st, how) ==
    [st EXCEPT !.pc = how,
               !.li = 1, !.layer = 0, !.transformer = NoTransform,
               !.feats = <<>>, !.fetched = 0, !.used_keys = {},
               !.id_counter = 0, !.generated_index = {}, !.point_lookup = {},
               !.collected_errors = <<>>]

\* lines 68-79: the visible ids are read, the locals created; mapLayers() is
\* read when the for of line 81 first advances _candidate_layers
RunStart(t) ==
    /\ tasks[t].pc = "start"
    /\ UNCHANGED <<store, canvas, history, project, insertFailAt, ui, tool, index_bundle, bundles>>
    /\ IF \E i \in 1..Len(project) :
             project[i].cond = "id_raises"
       THEN SetTask(t, EndRun(tasks[t], "raised"))
       ELSE SetTask(t, [tasks[t] EXCEPT
                !.pc = "layers",
                !.layers = project,
                !.visible_ids = VisibleIds(project)])

\* the index of the first layer from li on that is not skipped, 0 if none
RECURSIVE NextProbe(_, _, _)
NextProbe(layers, visible_ids, li) ==
    IF li > Len(layers) THEN 0
    ELSE IF LayerIfCandidate(layers[li], visible_ids) = "none"
    THEN NextProbe(layers, visible_ids, li + 1)
    ELSE li

\* line 110 without the test of line 109: the index is assigned whether or
\* not a point was collected
FinalizedIndexAlways(st, b) ==
    [b EXCEPT !.point_index = SomeIndex(st.generated_index)]

\* lines 109-110 and 112-113 on the result bundle b: point_index is assigned
\* when points were collected, the bundle is cleared when none was
FinalizedIndex(st, b) ==
    IF st.point_lookup # {}
    THEN [b EXCEPT !.point_index = SomeIndex(st.generated_index)]
    ELSE Clear(b)

\* lines 81-88: _candidate_layers advances to the next candidate; then the
\* cancellation check, the layer's context and getFeatures.  When no candidate
\* is left the loop ends and lines 109-110 assign point_index, or lines 113-116
\* clear the bundle, expose the errors and return True
NextLayer(t) ==
    /\ tasks[t].pc = "layers"
    /\ UNCHANGED <<store, canvas, history, project, insertFailAt, ui, tool, index_bundle>>
    /\ LET st == tasks[t]
           b == ResultBundle(t)
           k == NextProbe(st.layers, st.visible_ids, st.li)
       IN IF k = 0
          THEN /\ bundles' = [bundles EXCEPT ![b + 1] = FinalizedIndex(st, @)]
               /\ IF st.point_lookup # {}
                  THEN SetTask(t, [st EXCEPT !.pc = "map",
                                            !.li = Len(st.layers) + 1])
                  ELSE SetTask(t, EndRun([st EXCEPT
                                            !.li = Len(st.layers) + 1,
                                            !.errors = st.collected_errors],
                                         "true"))
          ELSE /\ UNCHANGED bundles
               /\ IF LayerIfCandidate(st.layers[k], st.visible_ids) = "raise"
                  THEN SetTask(t, EndRun(st, "raised"))
                  ELSE IF st.canceled
                  THEN SetTask(t, EndRun([st EXCEPT !.li = k + 1], "false"))
                  ELSE LET ctx == PrepareLayerContext(st.layers[k])
                       IN IF ctx.raised
                          THEN SetTask(t, EndRun([st EXCEPT !.li = k + 1], "raised"))
                          ELSE SetTask(t, [st EXCEPT
                                   !.pc = "features",
                                   !.li = k + 1,
                                   !.layer = k,
                                   !.transformer = ctx.transformer,
                                   !.feats = GetFeatures(st.layers[k], ctx.request),
                                   !.fetched = 0])

\* the handler with break for continue: the error is recorded and the loop
\* over the layers is left
LayerFailedBreaks(st) ==
    [st EXCEPT !.pc = "layers",
               !.li = Len(st.layers) + 1,
               !.collected_errors = Append(@, st.layers[st.layer].id)]

\* lines 105-107: the handler of the layer's try
LayerFailed(st) ==
    LET layer == st.layers[st.layer]
    IN IF layer.cond = "iter_name_raises"
       THEN EndRun(st, "raised")
       ELSE [st EXCEPT !.pc = "layers",
                       !.collected_errors = Append(@, layer.id)]

\* the loop over the features without the cancellation check of lines 89-90
NextFeatureNoPoll(t) ==
    /\ tasks[t].pc = "features"
    /\ UNCHANGED <<store, canvas, history, project, insertFailAt, ui, tool, index_bundle, bundles>>
    /\ LET st == tasks[t]
           layer == st.layers[st.layer]
           n == st.fetched + 1
           fetching == [st EXCEPT !.fetched = n]
       IN IF IterRaisesAt(layer) = n
          THEN SetTask(t, LayerFailed(fetching))
          ELSE IF n > Len(st.feats)
          THEN SetTask(t, [fetching EXCEPT !.pc = "layers"])
          ELSE IF layer.cond = "geometry_raises"
          THEN SetTask(t, LayerFailed(fetching))
          ELSE IF st.feats[n].empty
          THEN SetTask(t, fetching)
          ELSE SetTask(t, RememberAll(fetching, st.transformer,
                                      IterPoints(st.feats[n], layer)))

\* lines 88-104: the iterator is asked for the next feature, which is
\* processed whole: the cancellation check, its geometry, its points
NextFeature(t) ==
    /\ tasks[t].pc = "features"
    /\ UNCHANGED <<store, canvas, history, project, insertFailAt, ui, tool, index_bundle, bundles>>
    /\ LET st == tasks[t]
           layer == st.layers[st.layer]
           n == st.fetched + 1
           fetching == [st EXCEPT !.fetched = n]
       IN IF IterRaisesAt(layer) = n
          THEN SetTask(t, LayerFailed(fetching))
          ELSE IF n > Len(st.feats)
          THEN SetTask(t, [fetching EXCEPT !.pc = "layers"])
          ELSE IF st.canceled
          THEN SetTask(t, EndRun(fetching, "false"))
          ELSE IF layer.cond = "geometry_raises"
          THEN SetTask(t, LayerFailed(fetching))
          ELSE IF st.feats[n].empty
          THEN SetTask(t, fetching)
          ELSE SetTask(t, RememberAll(fetching, st.transformer,
                                      IterPoints(st.feats[n], layer)))

\* lines 111-116: id_to_point is assigned, the errors are exposed, run
\* returns True
FinalizeMap(t) ==
    /\ tasks[t].pc = "map"
    /\ UNCHANGED <<store, canvas, history, project, insertFailAt, ui, tool, index_bundle>>
    /\ bundles' = [bundles EXCEPT ![ResultBundle(t) + 1].id_to_point =
                       tasks[t].point_lookup]
    /\ SetTask(t, EndRun([tasks[t] EXCEPT !.errors = tasks[t].collected_errors],
                         "true"))

\* the host's task manager asks a task that has not ended to cancel
\* (QgsTask.cancel): isCanceled() is true from then on
HostCancel(t) ==
    /\ tasks[t].pc \in {"start", "layers", "features", "map"}
    /\ ~tasks[t].canceled
    /\ UNCHANGED <<store, canvas, history, project, insertFailAt, ui, tool, index_bundle, bundles>>
    /\ SetTask(t, [tasks[t] EXCEPT !.canceled = TRUE])

-----------------------------------------------------------------------------
(* The settings of the dock (ui_dock.py) *)

\* the values of the tolerance spin box the model follows: whole numbers of
\* pixels or of map units
ToleranceValues == {5, 12}

\* the values of the delay spin box the model follows, in ms
DebounceValues == {0, 10}

\* the settings get_settings() returns, by the options the plugin and the tool
\* read
Settings ==
    [use_fallback_index : BOOLEAN, build_fallback_index : BOOLEAN,
     tolerance_value : ToleranceValues, tolerance_units : {"px", "mu"},
     debounce_ms : DebounceValues,
     snap_vertices : BOOLEAN, snap_segments : BOOLEAN]

\* the widgets as _build_ui leaves them (ui_dock.py:71-78)
BuildUi ==
    [tolerance_value |-> 12, tolerance_units |-> "px",
     snap_vertices |-> TRUE, snap_segments |-> TRUE,
     use_fallback_index |-> TRUE, debounce_ms |-> 10,
     build_fallback_index |-> TRUE]

\* get_settings: the dict of the widgets' values, the two legacy keys with the
\* values of the keys that replaced them
GetSettings(w) ==
    [tolerance_value |-> w.tolerance_value,
     tolerance_units |-> w.tolerance_units,
     debounce_ms |-> w.debounce_ms,
     snap_vertices |-> w.snap_vertices,
     snap_segments |-> w.snap_segments,
     use_fallback_index |-> w.use_fallback_index,
     build_fallback_index |-> w.build_fallback_index,
     snap_centroids |-> w.use_fallback_index,
     build_centroid_index |-> w.build_fallback_index]

\* The store is a dict of texts, a set of <<key, text>> entries with the keys
\* written without the prefix of _k: a value is held as the text the settings
\* file keeps for it, and a read converts the text to the type asked for.

\* the text of a number, for the numbers of the model
NumberText(n) ==
    CASE n = 0 -> "0" [] n = 5 -> "5" [] n = 10 -> "10" [] n = 12 -> "12"

\* float(v) and the conversion of value(..., type=int), on such a text
TextNumber(v) == CHOOSE n \in ToleranceValues \cup DebounceValues : NumberText(n) = v

\* the text of a bool
BoolText(b) == IF b THEN "true" ELSE "false"

\* the conversion of value(..., type=bool): a text is false when it is empty,
\* "0" or "false"
ToBool(v) == v \notin {"", "0", "false"}

\* the text setValue stores for the value v of the key k
StoredText(k, v) ==
    IF k \in {"tolerance_value", "debounce_ms"} THEN NumberText(v)
    ELSE IF k = "tolerance_units" THEN v
    ELSE BoolText(v)

\* store.contains
Contains(st, k) == k \in {e[1] : e \in st}

\* store.value(k, default): the text held, or the default's text
Value(st, k, default) ==
    IF Contains(st, k) THEN (CHOOSE e \in st : e[1] = k)[2] ELSE default

\* _load_from_store that reads the legacy key first and the new key when the
\* legacy key is missing
LoadFromStoreLegacyFirst(w, st) ==
    [w EXCEPT
       !.tolerance_value =
           IF Contains(st, "tolerance_value")
           THEN TextNumber(Value(st, "tolerance_value", ""))
           ELSE @,
       !.tolerance_units =
           IF Value(st, "tolerance_units", "px") = "mu" THEN "mu" ELSE "px",
       !.snap_vertices = ToBool(Value(st, "snap_vertices", BoolText(TRUE))),
       !.snap_segments = ToBool(Value(st, "snap_segments", BoolText(TRUE))),
       !.use_fallback_index =
           IF Contains(st, "snap_centroids")
           THEN ToBool(Value(st, "snap_centroids", BoolText(FALSE)))
           ELSE ToBool(Value(st, "use_fallback_index", BoolText(TRUE))),
       !.build_fallback_index =
           IF Contains(st, "build_centroid_index")
           THEN ToBool(Value(st, "build_centroid_index", BoolText(TRUE)))
           ELSE ToBool(Value(st, "build_fallback_index", BoolText(TRUE))),
       !.debounce_ms = TextNumber(Value(st, "debounce_ms", NumberText(10)))]

\* _load_from_store on the widgets w.  The numbers the model stores lie in the
\* ranges of the spin boxes, which take them as they are
LoadFromStore(w, st) ==
    [w EXCEPT
       !.tolerance_value =
           IF Contains(st, "tolerance_value")
           THEN TextNumber(Value(st, "tolerance_value", ""))
           ELSE @,
       !.tolerance_units =
           IF Value(st, "tolerance_units", "px") = "mu" THEN "mu" ELSE "px",
       !.snap_vertices = ToBool(Value(st, "snap_vertices", BoolText(TRUE))),
       !.snap_segments = ToBool(Value(st, "snap_segments", BoolText(TRUE))),
       !.use_fallback_index =
           IF Contains(st, "use_fallback_index")
           THEN ToBool(Value(st, "use_fallback_index", BoolText(TRUE)))
           ELSE ToBool(Value(st, "snap_centroids", BoolText(FALSE))),
       !.build_fallback_index =
           IF Contains(st, "build_fallback_index")
           THEN ToBool(Value(st, "build_fallback_index", BoolText(TRUE)))
           ELSE ToBool(Value(st, "build_centroid_index", BoolText(TRUE))),
       !.debounce_ms = TextNumber(Value(st, "debounce_ms", NumberText(10)))]

\* _save_to_store: every key of get_settings() is set
SaveToStore(st, w) ==
    LET s == GetSettings(w)
    IN {e \in st : e[1] \notin DOMAIN s}
           \cup {<<k, StoredText(k, s[k])>> : k \in DOMAIN s}

\* SettingsDock.__init__ over the store st
NewDock(st) == LoadFromStore(BuildUi, st)

-----------------------------------------------------------------------------
(* SnapZenProTool (snap_tool.py) *)

\* _last_pos before the first move event
NoPos == <<>>

\* the QgsVertexMarker of a tool
Marker(visible, center) == [visible |-> visible, center |-> center]

\* self.tool: no tool, or one SnapZenProTool as __init__ leaves it: the timer
\* inactive, no position, the marker a visible canvas item at the origin
NoTool == <<>>

\* _configure_local_snapping with the tolerance always in pixels
ConfigureLocalSnappingPixels(settings) ==
    [units |-> "Pixels", tolerance |-> settings.tolerance_value]

\* _configure_local_snapping: the units and the tolerance of the config the
\* primary engine is given (lines 53-59)
ConfigureLocalSnapping(settings) ==
    [units |-> IF settings.tolerance_units = "px" THEN "Pixels" ELSE "MapUnits",
     tolerance |-> settings.tolerance_value]

NewTool(settings, bundle) ==
    <<[settings |-> settings, bundle |-> bundle, last_pos |-> NoPos,
       timer |-> [active |-> FALSE, interval |-> 0],
       marker |-> Marker(TRUE, <<0, 0>>),
       snap_cfg |-> ConfigureLocalSnapping(settings)]>>

\* SnapZenProTool.set_index_bundle
SetIndexBundle(tl, bundle) == <<[tl[1] EXCEPT !.bundle = bundle]>>

\* activate, which canvas.setMapTool calls on the tool
Activate(tl) == <<[tl[1] EXCEPT !.marker.visible = TRUE]>>

\* deactivate, which the canvas calls on the tool when it is unset or another
\* tool is set
Deactivate(tl) == <<[tl[1] EXCEPT !.marker.visible = FALSE]>>

\* the y of the map at the top row of the canvas's pixels, in units of 1e-7
CanvasTop == 12

\* the units of 1e-7 in one map unit
MapUnit == 10000000

\* toMapCoordinates: pixel columns count to the right, pixel rows downwards
ToMapCoordinates(cv, pos) ==
    <<pos[1] * cv.mupp, CanvasTop - pos[2] * cv.mupp>>

\* _use_fallback, on the settings get_settings() returns
UseFallback(settings) == settings.use_fallback_index

\* _mu_tolerance reading the value as map units whatever the units are
MuToleranceMapUnits(settings, cv) == settings.tolerance_value * MapUnit

\* _mu_tolerance, in units of 1e-7
MuTolerance(settings, cv) ==
    IF settings.tolerance_units = "px"
    THEN settings.tolerance_value * cv.mupp
    ELSE settings.tolerance_value * MapUnit

\* QgsPointXY.sqrDist
SqrDist(p, q) ==
    (p[1] - q[1]) * (p[1] - q[1]) + (p[2] - q[2]) * (p[2] - q[2])

\* the test of line 110 with < for <=
WithinToleranceStrict(candidate, map_pt, mu_tol) ==
    IF mu_tol > 46340 THEN TRUE
    ELSE SqrDist(candidate, map_pt) < mu_tol * mu_tol

\* candidate.sqrDist(map_pt) <= mu_tol*mu_tol.  The integers of the checker
\* end at 2^31 - 1 and 46340 is the largest whose square they hold: a squared
\* distance that was computed is below the square of any larger tolerance
WithinTolerance(candidate, map_pt, mu_tol) ==
    IF mu_tol > 46340 THEN TRUE
    ELSE SqrDist(candidate, map_pt) <= mu_tol * mu_tol

\* idx.nearestNeighbor(map_pt, 1): the ids one of which the index returns
\* first, those of the entries no other entry is nearer than
NearestNeighbor(idx, map_pt) ==
    {e[1] : e \in {n \in idx.entries :
                     \A o \in idx.entries :
                         SqrDist(n[2], map_pt) <= SqrDist(o[2], map_pt)}}

\* id_to_point.get(id, None)
Get(d, k) == IF k \in Keys(d) THEN (CHOOSE e \in d : e[1] = k)[2] ELSE NoPoint

\* what snapToMap gives: a match, valid at a point or invalid, or an exception
Match(kind, point) == [kind |-> kind, point |-> point]

\* the points at which the primary engine matches in the model
PrimaryPoints == {<<7, 7>>}

Matches ==
    {Match("raises", NoPoint), Match("invalid", NoPoint)}
        \cup {Match("valid", q) : q \in PrimaryPoints}

\* _show_marker
ShowMarker(marker, qpt) == Marker(TRUE, qpt)

\* marker.hide()
Hide(marker) == [marker EXCEPT !.visible = FALSE]

\* what a resolution leaves: the marker, whether nearestNeighbor was called,
\* the point shown (NoPoint when the marker was hidden or left alone) and
\* whether an exception left _do_snap
Outcome(marker, queried, shown, raised) ==
    [marker |-> marker, queried |-> queried, shown |-> shown, raised |-> raised]

\* _do_snap in which the exception of the primary engine is not caught
DoSnapPropagates(tl, bundle, cv, match, nn) ==
    IF tl.last_pos = NoPos THEN Outcome(tl.marker, FALSE, NoPoint, FALSE)
    ELSE IF match.kind = "raises" THEN Outcome(tl.marker, FALSE, NoPoint, TRUE)
    ELSE IF match.kind = "valid"
    THEN Outcome(ShowMarker(tl.marker, match.point), FALSE, match.point, FALSE)
    ELSE LET map_pt == ToMapCoordinates(cv, tl.last_pos)
             candidate == Get(bundle.id_to_point, nn)
         IN IF UseFallback(tl.settings) /\ bundle.point_index.present
               /\ nn \in NearestNeighbor(bundle.point_index, map_pt)
               /\ candidate # NoPoint
               /\ WithinTolerance(candidate, map_pt, MuTolerance(tl.settings, cv))
            THEN Outcome(ShowMarker(tl.marker, candidate), TRUE, candidate, FALSE)
            ELSE Outcome(Hide(tl.marker),
                         UseFallback(tl.settings) /\ bundle.point_index.present,
                         NoPoint, FALSE)

\* _do_snap in which the index is asked before the primary engine's match is
\* looked at
DoSnapQueriesFirst(tl, bundle, cv, match, nn) ==
    IF tl.last_pos = NoPos THEN Outcome(tl.marker, FALSE, NoPoint, FALSE)
    ELSE LET queried == UseFallback(tl.settings) /\ bundle.point_index.present
             map_pt == ToMapCoordinates(cv, tl.last_pos)
             candidate == Get(bundle.id_to_point, nn)
         IN IF match.kind = "valid"
            THEN Outcome(ShowMarker(tl.marker, match.point), queried,
                         match.point, FALSE)
            ELSE IF queried
               /\ nn \in NearestNeighbor(bundle.point_index, map_pt)
               /\ candidate # NoPoint
               /\ WithinTolerance(candidate, map_pt, MuTolerance(tl.settings, cv))
            THEN Outcome(ShowMarker(tl.marker, candidate), TRUE, candidate, FALSE)
            ELSE Outcome(Hide(tl.marker), queried, NoPoint, FALSE)

\* _do_snap that asks the index whatever _use_fallback says
DoSnapIgnoresSetting(tl, bundle, cv, match, nn) ==
    IF tl.last_pos = NoPos THEN Outcome(tl.marker, FALSE, NoPoint, FALSE)
    ELSE IF match.kind = "valid"
    THEN Outcome(ShowMarker(tl.marker, match.point), FALSE, match.point, FALSE)
    ELSE LET map_pt == ToMapCoordinates(cv, tl.last_pos)
             candidate == Get(bundle.id_to_point, nn)
         IN IF bundle.point_index.present
               /\ nn \in NearestNeighbor(bundle.point_index, map_pt)
               /\ candidate # NoPoint
               /\ WithinTolerance(candidate, map_pt, MuTolerance(tl.settings, cv))
            THEN Outcome(ShowMarker(tl.marker, candidate), TRUE, candidate, FALSE)
            ELSE Outcome(Hide(tl.marker), bundle.point_index.present,
                         NoPoint, FALSE)

\* _do_snap without the marker.hide() of line 114
DoSnapNoHide(tl, bundle, cv, match, nn) ==
    IF tl.last_pos = NoPos THEN Outcome(tl.marker, FALSE, NoPoint, FALSE)
    ELSE IF match.kind = "valid"
    THEN Outcome(ShowMarker(tl.marker, match.point), FALSE, match.point, FALSE)
    ELSE LET map_pt == ToMapCoordinates(cv, tl.last_pos)
             candidate == Get(bundle.id_to_point, nn)
         IN IF UseFallback(tl.settings) /\ bundle.point_index.present
               /\ nn \in NearestNeighbor(bundle.point_index, map_pt)
               /\ candidate # NoPoint
               /\ WithinTolerance(candidate, map_pt, MuTolerance(tl.settings, cv))
            THEN Outcome(ShowMarker(tl.marker, candidate), TRUE, candidate, FALSE)
            ELSE Outcome(tl.marker,
                         UseFallback(tl.settings) /\ bundle.point_index.present,
                         NoPoint, FALSE)

\* _do_snap on a tool record tl whose bundle has the fields `bundle`: match is
\* what the primary engine gives, nn the id nearestNeighbor returns first (any
\* id when the index holds no entry and the list is empty)
DoSnap(tl, bundle, cv, match, nn) ==
    IF tl.last_pos = NoPos THEN Outcome(tl.marker, FALSE, NoPoint, FALSE)
    ELSE IF match.kind = "valid"
    THEN Outcome(ShowMarker(tl.marker, match.point), FALSE, match.point, FALSE)
    ELSE LET map_pt == ToMapCoordinates(cv, tl.last_pos)
             candidate == Get(bundle.id_to_point, nn)
         IN IF UseFallback(tl.settings) /\ bundle.point_index.present
               /\ nn \in NearestNeighbor(bundle.point_index, map_pt)
               /\ candidate # NoPoint
               /\ WithinTolerance(candidate, map_pt, MuTolerance(tl.settings, cv))
            THEN Outcome(ShowMarker(tl.marker, candidate), TRUE, candidate, FALSE)
            ELSE Outcome(Hide(tl.marker),
                         UseFallback(tl.settings) /\ bundle.point_index.present,
                         NoPoint, FALSE)

-----------------------------------------------------------------------------
(* SnapZenProPlugin (plugin.py) *)

\* _should_build_index
ShouldBuildIndex(settings) ==
    settings.use_fallback_index /\ settings.build_fallback_index

\* _rebuild_centroids, as a step of a handler: a task and its result bundle
\* are constructed and the task is handed to the task manager
StartTask ==
    /\ Len(tasks) < MaxTasks
    /\ tasks' = Append(tasks, NewTask)
    /\ bundles' = Append(bundles, NewBundle)

\* _rebuild_centroids, triggered by the rebuild action or the dock's button
RebuildCentroids ==
    /\ StartTask
    /\ UNCHANGED <<store, canvas, history, project, insertFailAt, ui, tool, index_bundle>>

\* _apply_settings
ApplySettingsBody ==
    /\ tool' = Activate(NewTool(GetSettings(ui), index_bundle))
    /\ IF ShouldBuildIndex(GetSettings(ui))
       THEN StartTask
       ELSE UNCHANGED <<tasks, bundles>>
    /\ UNCHANGED <<canvas, history, project, insertFailAt, ui, index_bundle>>

\* applyRequested handled by its slot, _apply_settings (plugin.py:69): what
\* the plugin does of an apply, the store left aside
ApplySettings == ApplySettingsBody /\ UNCHANGED store

\* the dock's "Apply & Activate" button, _on_apply_clicked (ui_dock.py:80-82):
\* the settings are saved, then applyRequested is emitted and its slot runs
OnApplyClicked ==
    /\ store' = SaveToStore(store, ui)
    /\ ApplySettingsBody

\* QGIS is started again over the store as it is: the plugin is constructed
\* (plugin.py:15-28) and initGui constructs the dock (plugin.py:62-64), which
\* loads the store; nothing of the earlier session is left but the store
Restart ==
    /\ ui' = NewDock(store)
    /\ tool' = NoTool
    /\ index_bundle' = 0
    /\ bundles' = <<NewBundle>>
    /\ tasks' = <<>>
    /\ UNCHANGED <<store, canvas, history, project, insertFailAt>>

\* _on_toggle
OnToggle(enabled) ==
    IF enabled
    THEN ApplySettingsBody /\ UNCHANGED store
    ELSE /\ tool' = NoTool
         /\ UNCHANGED <<store, canvas, history, project, insertFailAt, ui, index_bundle,
                        tasks, bundles>>

\* the user changes the fallback options in the dock
EditSettings(s) ==
    /\ s # ui
    /\ ui' = s
    /\ UNCHANGED <<store, canvas, history, project, insertFailAt, tool, index_bundle, tasks, bundles>>

\* the settings the plugin is followed over: every state of the two
\* checkboxes of the dock, the other widgets as _build_ui sets them
PluginSettings ==
    {s \in Settings : /\ s.tolerance_value = 12
                      /\ s.tolerance_units = "px"
                      /\ s.debounce_ms = 10
                      /\ s.snap_vertices /\ s.snap_segments}

\* the projects the plugin is followed over
PluginProjects ==
    { <<>>, <<Layer("parcels", "ok")>> }

\* layersAdded / layersRemoved: the project has changed, and
\* _rebuild_centroids_if_enabled runs
LayersChanged(p) ==
    /\ p # project
    /\ project' = p
    /\ IF ShouldBuildIndex(GetSettings(ui))
       THEN StartTask
       ELSE UNCHANGED <<tasks, bundles>>
    /\ UNCHANGED <<store, canvas, history, insertFailAt, ui, tool, index_bundle>>

\* _on_task_complete without lines 134-135: the tool is not told
OnTaskCompleteNoForward(t) ==
    /\ index_bundle' = t
    /\ tool' = tool

\* _on_task_complete
OnTaskComplete(t) ==
    LET res == ResultBundle(t)
    IN /\ index_bundle' = res
       /\ tool' = IF tool # NoTool THEN SetIndexBundle(tool, res) ELSE tool

\* the run of a task has ended, by a return or by an exception that escaped
\* it: the host calls finished() on the main thread, which emits completed
\* whatever the result, and the slot of completed is _on_task_complete
\* (indexer.py:118-119, plugin.py:127)
Finished(t) ==
    /\ tasks[t].pc \in {"true", "false", "raised"}
    /\ OnTaskComplete(t)
    /\ SetTask(t, [NewTask EXCEPT !.pc = "handled"])
    /\ UNCHANGED <<store, canvas, history, project, insertFailAt, ui, bundles>>

-----------------------------------------------------------------------------
(* The tool's events (snap_tool.py:74-114) *)

\* the pixel positions of the pointer in the model
Positions == {<<4, 4>>, <<4, 3>>, <<11, 8>>}

\* an entry of the history: a move delivered to the tool, or a resolution with
\* the position it used, what the primary engine gave, the id nearestNeighbor
\* returned first (-1 when it was not called or returned none) and the
\* outcome; with each, the canvas's map units per pixel at that moment
MoveEvent(pos) ==
    [kind |-> "move", pos |-> pos, match |-> Match("invalid", NoPoint),
     nn |-> -1, queried |-> FALSE, shown |-> NoPoint, raised |-> FALSE,
     mupp |-> canvas.mupp]

SnapEvent(pos, match, nn, out) ==
    [kind |-> "snap", pos |-> pos, match |-> match,
     nn |-> IF out.queried THEN nn ELSE -1,
     queried |-> out.queried, shown |-> out.shown, raised |-> out.raised,
     mupp |-> canvas.mupp]

\* an entry of the history for what is neither: the plugin unloaded
\* ("unload"), the tool deactivated ("deactivate")
OtherEvent(kind) ==
    [kind |-> kind, pos |-> NoPos, match |-> Match("invalid", NoPoint),
     nn |-> -1, queried |-> FALSE, shown |-> NoPoint, raised |-> FALSE,
     mupp |-> canvas.mupp]

Happened(kind) == \E i \in 1..Len(history) : history[i].kind = kind

Moves(h) == SelectSeq(h, LAMBDA e : e.kind = "move")

Snaps(h) == SelectSeq(h, LAMBDA e : e.kind = "snap")

\* canvasMoveEvent that keeps the position it has while the timer runs
CanvasMoveEventKeepsFirst(pos) ==
    /\ tool # NoTool
    /\ Len(Moves(history)) < MaxMoves
    /\ tool' = <<[tool[1] EXCEPT
                    !.last_pos = IF tool[1].timer.active THEN @ ELSE pos,
                    !.timer = [active |-> TRUE,
                               interval |-> IF tool[1].settings.debounce_ms > 0
                                            THEN tool[1].settings.debounce_ms
                                            ELSE 0]]>>
    /\ history' = Append(history, MoveEvent(pos))
    /\ UNCHANGED <<project, insertFailAt, ui, index_bundle, bundles, tasks, canvas, store>>

\* canvasMoveEvent: the position is kept and the single-shot timer started,
\* or started again when it is running
CanvasMoveEvent(pos) ==
    /\ tool # NoTool
    /\ Len(Moves(history)) < MaxMoves
    /\ tool' = <<[tool[1] EXCEPT
                    !.last_pos = pos,
                    !.timer = [active |-> TRUE,
                               interval |-> IF tool[1].settings.debounce_ms > 0
                                            THEN tool[1].settings.debounce_ms
                                            ELSE 0]]>>
    /\ history' = Append(history, MoveEvent(pos))
    /\ UNCHANGED <<project, insertFailAt, ui, index_bundle, bundles, tasks, canvas, store>>

\* the timer's timeout, delivered by the event loop once the interval has
\* passed (with an interval of 0: once the loop gets to it): the timer stops
\* and its slot _do_snap runs; an exception leaving the slot leaves the tool
\* as it is
TimerTimeout(match) ==
    /\ tool # NoTool
    /\ tool[1].timer.active
    /\ LET tl == tool[1]
           bundle == Bundle(tl.bundle)
           near == NearestNeighbor(bundle.point_index,
                                   ToMapCoordinates(canvas, tl.last_pos))
       IN \E nn \in (IF near = {} THEN {-1} ELSE near) :
            LET out == DoSnap(tl, bundle, canvas, match, nn)
            IN /\ tool' = <<[tl EXCEPT !.timer.active = FALSE,
                                       !.marker = out.marker]>>
               /\ history' = Append(history, SnapEvent(tl.last_pos, match, nn, out))
    /\ UNCHANGED <<project, insertFailAt, ui, index_bundle, bundles, tasks, canvas, store>>

-----------------------------------------------------------------------------
(* The specifications *)

RunStep(t) ==
    \/ RunStart(t)
    \/ NextLayer(t)
    \/ NextFeature(t)
    \/ FinalizeMap(t)

\* the plugin after __init__ and initGui, over one of PluginProjects
Init ==
    /\ project \in PluginProjects
    /\ insertFailAt = {}
    /\ ui \in PluginSettings
    /\ tool = NoTool
    /\ index_bundle = 0
    /\ bundles = <<NewBundle>>
    /\ tasks = <<>>
    /\ canvas = [mupp |-> 1]
    /\ history = <<>>
    /\ store = {}

Next ==
    \/ RebuildCentroids
    \/ ApplySettings
    \/ \E enabled \in BOOLEAN : OnToggle(enabled)
    \/ \E s \in PluginSettings : EditSettings(s)
    \/ \E p \in PluginProjects : LayersChanged(p)
    \/ \E t \in TaskIds : RunStep(t)
    \/ \E t \in TaskIds : HostCancel(t)
    \/ \E t \in TaskIds : Finished(t)

Spec == Init /\ [][Next]_vars

\* one build, over any project and any failing insertFeature calls
InitRun ==
    /\ project \in Projects
    /\ insertFailAt \in SUBSET (1..MaxInsertFail)
    /\ ui \in {s \in PluginSettings :
                   s.use_fallback_index /\ s.build_fallback_index}
    /\ tool = NoTool
    /\ index_bundle = 0
    /\ bundles = <<NewBundle>>
    /\ tasks = <<>>
    /\ canvas = [mupp |-> 1]
    /\ history = <<>>
    /\ store = {}

FirstBuild == tasks = <<>> /\ RebuildCentroids

NextRun ==
    \/ FirstBuild
    \/ \E t \in TaskIds : RunStep(t)
    \/ \E t \in TaskIds : HostCancel(t)
    \/ \E t \in TaskIds : Finished(t)

SpecRun == InitRun /\ [][NextRun]_vars

\* a second build over the same project, once the run of the first has ended
SecondBuild ==
    /\ Len(tasks) = 1
    /\ tasks[1].pc \in {"true", "false", "raised"}
    /\ RebuildCentroids

\* two builds one after the other over one project, neither handled yet
NextTwin ==
    \/ FirstBuild
    \/ SecondBuild
    \/ \E t \in TaskIds : RunStep(t)

SpecTwin == InitRun /\ [][NextTwin]_vars

\* the canvas deactivates the tool: the user picks another map tool, or the
\* plugin unsets this one
DeactivateTool ==
    /\ tool # NoTool
    /\ ~Happened("deactivate")
    /\ tool' = Deactivate(tool)
    /\ history' = Append(history, OtherEvent("deactivate"))
    /\ UNCHANGED <<project, insertFailAt, ui, index_bundle, bundles, tasks,
                   canvas, store>>

\* the canvas delivers the pointer's moves to its current tool only
MoveWhileActive(pos) == ~Happened("deactivate") /\ CanvasMoveEvent(pos)

\* unload (plugin.py:78-94): the tool is unset on the canvas, which
\* deactivates it, and the toolbar, the menu entries and the dock are removed;
\* self.tool and the connections of initGui stay
Unload ==
    /\ ~Happened("unload")
    /\ tool' = IF tool = NoTool THEN tool ELSE Deactivate(tool)
    /\ history' = Append(history, OtherEvent("unload"))
    /\ UNCHANGED <<project, insertFailAt, ui, index_bundle, bundles, tasks,
                   canvas, store>>

\* the dock's signal while the dock is there
ApplyWhileLoaded == ~Happened("unload") /\ ApplySettings

\* the plugin with its builds, and its unloading: after it only the runs and
\* their completions go on
NextUnload ==
    \/ ApplyWhileLoaded
    \/ Unload
    \/ \E t \in TaskIds : RunStep(t)
    \/ \E t \in TaskIds : HostCancel(t)
    \/ \E t \in TaskIds : Finished(t)

SpecUnload == Init /\ [][NextUnload]_vars

\* the scales of the canvas in the model, in units of 1e-7 per pixel
Scales == {1, 2}

\* the settings a tool is followed over: any units, any delay, the fallback
\* on or off
SnapSettings ==
    {s \in Settings : /\ s.build_fallback_index /\ s.tolerance_value = 5
                      /\ s.snap_vertices /\ s.snap_segments}

\* the bundle a build over the polygon layer leaves (lines 96-111)
ParcelsBundle ==
    LET layer == Layer("parcels", "ok")
        st == RememberAll(NewTask, NoTransform,
                          IterPoints(BaseFeatures("parcels")[1], layer))
    IN [point_index |-> SomeIndex(st.generated_index),
        id_to_point |-> st.point_lookup]

\* a tool the plugin has made and activated, over the bundle of __init__ when
\* no build has run, or over the bundle of a build that was adopted
InitSnap ==
    /\ insertFailAt = {}
    /\ ui \in SnapSettings
    /\ canvas \in {[mupp |-> m] : m \in Scales}
    /\ history = <<>>
    /\ store = {}
    /\ \/ /\ project = <<>>
          /\ tasks = <<>>
          /\ bundles = <<NewBundle>>
          /\ index_bundle = 0
       \/ /\ project = <<Layer("parcels", "ok")>>
          /\ tasks = <<[NewTask EXCEPT !.pc = "handled"]>>
          /\ bundles = <<NewBundle, ParcelsBundle>>
          /\ index_bundle = 1
    /\ tool = Activate(NewTool(GetSettings(ui), index_bundle))

NextSnap ==
    \/ \E pos \in Positions : CanvasMoveEvent(pos)
    \/ \E match \in Matches : TimerTimeout(match)

SpecSnap == InitSnap /\ [][NextSnap]_vars

\* the user zooms: the canvas has another scale
Zoom(m) ==
    /\ m # canvas.mupp
    /\ canvas' = [canvas EXCEPT !.mupp = m]
    /\ UNCHANGED <<project, insertFailAt, ui, tool, index_bundle, bundles, tasks,
                   history, store>>

\* a tool with the fallback enabled over the adopted bundle of a build, on a
\* canvas whose scale changes
InitZoom ==
    /\ InitSnap
    /\ ui.use_fallback_index
    /\ ui.debounce_ms = 10
    /\ index_bundle = 1

NextZoom ==
    \/ NextSnap
    \/ \E m \in Scales : Zoom(m)

SpecZoom == InitZoom /\ [][NextZoom]_vars

\* a tool that is deactivated at some moment
NextDeactivate ==
    \/ \E pos \in Positions : MoveWhileActive(pos)
    \/ \E match \in Matches : TimerTimeout(match)
    \/ DeactivateTool

SpecDeactivate == InitSnap /\ [][NextDeactivate]_vars

\* what the option keys hold in the stores the dock is constructed over: each
\* of the four keys missing, or the text of a bool
OptionKeys ==
    {"use_fallback_index", "snap_centroids",
     "build_fallback_index", "build_centroid_index"}

OptionStores ==
    UNION { { {<<k, f[k]>> : k \in ks} : f \in [ks -> {"true", "false"}] } :
            ks \in SUBSET OptionKeys }

\* what the other keys hold: all missing, or values other than the defaults
OtherStores ==
    { {},
      {<<"tolerance_value", "5">>, <<"tolerance_units", "mu">>,
       <<"debounce_ms", "0">>, <<"snap_vertices", "false">>,
       <<"snap_segments", "false">>} }

\* the plugin after __init__ and initGui over any of these stores: the dock
\* has loaded the store
InitStore ==
    /\ store \in {a \cup b : a \in OptionStores, b \in OtherStores}
    /\ ui = NewDock(store)
    /\ project = <<>>
    /\ insertFailAt = {}
    /\ tool = NoTool
    /\ index_bundle = 0
    /\ bundles = <<NewBundle>>
    /\ tasks = <<>>
    /\ canvas = [mupp |-> 1]
    /\ history = <<>>

NextStore ==
    \/ \E s \in PluginSettings : EditSettings(s)
    \/ OnApplyClicked
    \/ Restart

SpecStore == InitStore /\ [][NextStore]_vars

-----------------------------------------------------------------------------
(* The claims *)

\* the bundle objects the plugin and its tool reference
Referenced == {index_bundle} \cup {tool[i].bundle : i \in 1..Len(tool)}

\* the run of task t has ended
RunEnded(t) == tasks[t].pc \in {"true", "false", "raised", "handled"}

\* the run of task t has returned True and its completion is not yet handled:
\* the task holds the bundle and the errors the run produced
Completed(t) == tasks[t].pc = "true"

\* the coordinates of a point rounded to 6 decimal digits
Rounded(point) == <<Round6(point[1]), Round6(point[2])>>

\* the candidate layers of the run of a task record, in the order of the run
CandidatesOf(st) ==
    SelectSeq(st.layers, LAMBDA l : LayerIfCandidate(l, st.visible_ids) = "layer")

\* the streaming of the layer's features raises inside the try of line 87
StreamRaises(layer) == layer.cond \in {"iter_raises", "geometry_raises"}

\* an external call on the layer raises outside every try of the run
Escapes(layer) ==
    layer.cond \in {"id_raises", "isValid_raises", "crs_raises", "iter_name_raises"}

\* the rounded keys of the points a layer offers: the points of the features
\* its request selects, as transformed, the dropped ones left out
OfferedKeys(layer) ==
    LET ctx == PrepareLayerContext(layer)
        feats == GetFeatures(layer, ctx.request)
        offered(f) ==
            IF f.empty THEN {}
            ELSE LET pts == IterPoints(f, layer)
                 IN {TransformPoint(ctx.transformer, pts[i]) : i \in 1..Len(pts)}
                        \ {NoPoint}
    IN {Rounded(p) : p \in UNION {offered(feats[i]) : i \in 1..Len(feats)}}

\* the calls of insertFeature in the history of a run
InsertCalls(st) == SelectSeq(st.seen, LAMBDA e : e.outcome # "dup")

NoInsertRaised(st) == \A i \in 1..Len(st.seen) : st.seen[i].outcome # "raised"

\* C1 (as claimed): when the completion of a cancelled run is handled, the
\* bundle the plugin holds and the bundle the tool holds have the contents
\* they had before, and the tool is the one there was: the previous bundle
\* stays in effect.  (That they are also the same objects is claimed too; the
\* contents are what a reader of the bundle can observe.)
C1_CancelledRunNotAdopted ==
    [][\A t \in TaskIds :
          (tasks[t].pc = "false" /\ tasks'[t].pc = "handled")
          => /\ bundles'[index_bundle' + 1] = bundles[index_bundle + 1]
             /\ Len(tool') = Len(tool)
             /\ \A i \in 1..Len(tool) :
                   bundles'[tool'[i].bundle + 1] = bundles[tool[i].bundle + 1]]_vars

\* C2: a bundle the plugin or a tool references is the initial bundle or the
\* result bundle of a task whose completion has been handled, never that of a
\* run in progress; and neither the initial bundle nor the bundle of a run that
\* has ended is changed by any later step.
C2_Reachable ==
    \A b \in Referenced : b = 0 \/ (b \in TaskIds /\ tasks[b].pc = "handled")

C2_Frame ==
    \A b \in 0..Len(tasks) :
        (b = 0 \/ RunEnded(b)) => bundles'[b + 1] = bundles[b + 1]

C2_NoPartialBundleObserved == [](C2_Reachable) /\ [][C2_Frame]_vars

\* a tool and the plugin hold the finished bundle of the first build while the
\* second build has assigned point_index and not yet id_to_point
C2_Witness ==
    /\ Len(tasks) = 2
    /\ tasks[2].pc = "map"
    /\ tool # NoTool
    /\ Referenced = {1}
    /\ ~IsEmpty(Bundle(1))
    /\ Bundle(2).point_index.present /\ Bundle(2).id_to_point = {}

\* C3 (as claimed): once every build that was started has ended and been
\* handled, the active bundle is the result of the build started last.
C3_LatestBuildWins ==
    (tasks # <<>> /\ \A t \in TaskIds : tasks[t].pc = "handled")
    => index_bundle = ResultBundle(Len(tasks))

\* C4: handling a completion makes the task's result bundle the plugin's
\* active bundle and the bundle of the tool, if there is one; and whenever a
\* tool exists it references the plugin's active bundle.
C4_ToolSharesBundle == tool # NoTool => tool[1].bundle = index_bundle

C4_Swap ==
    \A t \in TaskIds :
        (tasks[t].pc # "handled" /\ tasks'[t].pc = "handled")
        => /\ index_bundle' = ResultBundle(t)
           /\ tool # NoTool => (tool' # NoTool /\ tool'[1].bundle = ResultBundle(t))

C4_CompletionSwapsAndForwards == [](C4_ToolSharesBundle) /\ [][C4_Swap]_vars

\* a tool that existed when a completion was handled holds its bundle
C4_Witness ==
    /\ tool # NoTool
    /\ index_bundle # 0
    /\ tool[1].bundle = index_bundle
    /\ tasks[index_bundle].pc = "handled"

C6_RunNeverRaises == \A t \in TaskIds : tasks[t].pc # "raised"

\* C7: a completed run exposes exactly one error for each candidate layer whose
\* feature streaming raised, in the order of the layers, and, when no insertion
\* raised, its bundle holds the key of every point the other candidate layers
\* offer; a run over layers none of which raises outside a try never ends
\* with an exception.
C7_LayerFailureIsRecordedAndSkipped ==
    \A t \in TaskIds :
        LET st == tasks[t]
            cands == CandidatesOf(st)
            keys == {Rounded(e[2]) : e \in Bundle(ResultBundle(t)).id_to_point}
        IN /\ Completed(t)
              => /\ st.errors =
                      [i \in 1..Len(SelectSeq(cands, StreamRaises)) |->
                          SelectSeq(cands, StreamRaises)[i].id]
                 /\ NoInsertRaised(st)
                      => \A i \in 1..Len(cands) :
                            ~StreamRaises(cands[i]) => OfferedKeys(cands[i]) \subseteq keys
           /\ st.pc = "raised"
              => \E i \in 1..Len(project) : Escapes(project[i])

\* a completed run whose first candidate layer failed and whose bundle holds
\* the points of a later layer
C7_Witness ==
    \E t \in TaskIds :
        LET st == tasks[t]
            cands == CandidatesOf(st)
        IN /\ Completed(t)
           /\ Len(st.errors) = 1
           /\ Len(cands) >= 2
           /\ StreamRaises(cands[1])
           /\ OfferedKeys(cands[2]) # {}
           /\ OfferedKeys(cands[2]) \subseteq
                 {Rounded(e[2]) : e \in Bundle(ResultBundle(t)).id_to_point}

\* C8: in the bundle of a completed run no two entries round to the same pair
\* at 6 decimal digits, and each entry is the first point of its rounded key
\* that the run met, the points whose insertion raised aside.
C8_RoundedKeysUniqueFirstWins ==
    \A t \in TaskIds :
        Completed(t)
        => LET st == tasks[t]
               m == Bundle(ResultBundle(t)).id_to_point
           IN /\ \A e1, e2 \in m : Rounded(e1[2]) = Rounded(e2[2]) => e1 = e2
              /\ \A e \in m :
                    \E i \in 1..Len(st.seen) :
                        /\ st.seen[i].point = e[2]
                        /\ st.seen[i].outcome = "ok"
                        /\ \A j \in 1..(i - 1) :
                              Rounded(st.seen[j].point) = Rounded(e[2])
                              => st.seen[j].outcome = "raised"
              /\ \A i \in 1..Len(st.seen) :
                    st.seen[i].outcome # "raised"
                    => Rounded(st.seen[i].point) \in {Rounded(e[2]) : e \in m}

\* a completed run that met PA on the polygon layer and then PB, of the same
\* rounded key, on another layer, and kept PA
C8_Witness ==
    \E t \in TaskIds :
        LET st == tasks[t]
        IN /\ Completed(t)
           /\ \A i \in 1..Len(st.layers) : st.layers[i].id # "wells"
           /\ \E i, j \in 1..Len(st.seen) :
                 /\ i < j
                 /\ st.seen[i] = Seen(PA, "ok", st.seen[i].id)
                 /\ st.seen[j] = Seen(PB, "dup", -1)
           /\ \E e \in Bundle(ResultBundle(t)).id_to_point : e[2] = PA

\* C9: the insertFeature calls of a run carry the ids 0, 1, 2, ... in the order
\* of the calls; the bundle of a completed run holds the ids of the calls that
\* did not raise, and the ids 0..n-1 for its n points when none raised.
C9_IdsCountFromZero ==
    \A t \in TaskIds :
        LET st == tasks[t]
            calls == InsertCalls(st)
            m == Bundle(ResultBundle(t)).id_to_point
        IN /\ \A k \in 1..Len(calls) : calls[k].id = k - 1
           /\ Completed(t)
              => /\ m = {<<calls[k].id, calls[k].point>> :
                           k \in {i \in 1..Len(calls) : calls[i].outcome = "ok"}}
                 /\ NoInsertRaised(st) => Keys(m) = 0..(Cardinality(m) - 1)

\* a completed run without a failed insertion and with at least three points
C9_Witness ==
    \E t \in TaskIds :
        /\ Completed(t)
        /\ NoInsertRaised(tasks[t])
        /\ Cardinality(Bundle(ResultBundle(t)).id_to_point) >= 3

-----------------------------------------------------------------------------
(* The claims on the tool's resolutions *)

\* the bundle the tool holds
ToolBundle == Bundle(tool[1].bundle)

\* the map point of a resolution
MapPoint(e) == ToMapCoordinates(canvas, e.pos)

\* the effective tolerance in units of 1e-7: the value times the map units per
\* pixel when the units are pixels, the value in map units otherwise
EffectiveTolerance ==
    IF tool[1].settings.tolerance_units = "px"
    THEN tool[1].settings.tolerance_value * canvas.mupp
    ELSE tool[1].settings.tolerance_value * MapUnit

\* d2 <= tol^2; a tolerance above 46340 has a square above every integer of
\* the checker
AtMostSquare(d2, tol) == tol > 46340 \/ d2 <= tol * tol

IndexedPoints == {en[2] : en \in ToolBundle.id_to_point}

\* the least squared distance of an indexed point to the point q
LeastSqrDist(q) ==
    CHOOSE d \in {SqrDist(p, q) : p \in IndexedPoints} :
        \A p \in IndexedPoints : d <= SqrDist(p, q)

SnapEntries == {i \in 1..Len(history) : history[i].kind = "snap"}

FallbackAvailable ==
    tool[1].settings.use_fallback_index /\ ~IsEmpty(ToolBundle)

\* the point a resolution matched, NoPoint if none: the primary match's point,
\* or the neighbour the index returned when the fallback is available and the
\* neighbour lies within the effective tolerance
Matched(e) ==
    IF e.match.kind = "valid" THEN e.match.point
    ELSE IF /\ FallbackAvailable
            /\ e.nn # -1
            /\ AtMostSquare(SqrDist(Get(ToolBundle.id_to_point, e.nn), MapPoint(e)),
                            EffectiveTolerance)
    THEN Get(ToolBundle.id_to_point, e.nn)
    ELSE NoPoint

\* C11: a resolution without a primary match, with the fallback enabled and a
\* non-empty bundle, shows an indexed point at the least distance from the
\* pointer's map point when that distance is within the effective tolerance,
\* and shows nothing otherwise.
C11_FallbackShowsNearestWithinTolerance ==
    \A i \in SnapEntries :
        LET e == history[i]
        IN (e.match.kind # "valid" /\ FallbackAvailable)
           => IF AtMostSquare(LeastSqrDist(MapPoint(e)), EffectiveTolerance)
              THEN /\ e.shown \in IndexedPoints
                   /\ SqrDist(e.shown, MapPoint(e)) = LeastSqrDist(MapPoint(e))
              ELSE e.shown = NoPoint

\* with one map unit per pixel and a tolerance of 5 pixels: a resolution that
\* showed PA, the nearest point, at distance 5, with PC farther, and one that
\* showed nothing at a position whose nearest point is farther than 5
C11_Witness ==
    /\ tool # NoTool
    /\ FallbackAvailable
    /\ tool[1].settings.tolerance_units = "px"
    /\ canvas.mupp = 1
    /\ \E i, j \in SnapEntries :
          /\ history[i].match.kind = "invalid"
          /\ history[i].shown = PA
          /\ PC \in IndexedPoints
          /\ history[j].match.kind = "invalid"
          /\ history[j].shown = NoPoint

\* C12: a resolution with a valid primary match does not call nearestNeighbor
\* and shows the primary match's point; when it is the latest event the marker
\* is visible at that point.
C12_PrimaryMatchSkipsFallback ==
    \A i \in SnapEntries :
        LET e == history[i]
        IN e.match.kind = "valid"
           => /\ ~e.queried
              /\ e.shown = e.match.point
              /\ i = Len(history) => tool[1].marker = Marker(TRUE, e.match.point)

\* a resolution with a valid primary match while the fallback is enabled and
\* the bundle holds points
C12_Witness ==
    /\ tool # NoTool
    /\ FallbackAvailable
    /\ history # <<>>
    /\ history[Len(history)].kind = "snap"
    /\ history[Len(history)].match.kind = "valid"
    /\ tool[1].marker.center \notin IndexedPoints

\* C13: in a resolution that asked the index and got a neighbour, the neighbour
\* is shown if and only if its squared distance to the pointer's map point is
\* at most the square of the effective tolerance.
C13_ToleranceBoundaryInclusive ==
    \A i \in SnapEntries :
        LET e == history[i]
            candidate == Get(ToolBundle.id_to_point, e.nn)
        IN (e.queried /\ e.nn # -1)
           => /\ AtMostSquare(SqrDist(candidate, MapPoint(e)), EffectiveTolerance)
                    => e.shown = candidate
              /\ ~AtMostSquare(SqrDist(candidate, MapPoint(e)), EffectiveTolerance)
                    => e.shown = NoPoint

\* a neighbour at squared distance exactly tolerance^2 was shown and one at a
\* greater squared distance was not
C13_Witness ==
    /\ tool # NoTool
    /\ EffectiveTolerance = 5
    /\ \E i, j \in SnapEntries :
          /\ history[i].queried
          /\ SqrDist(Get(ToolBundle.id_to_point, history[i].nn), MapPoint(history[i]))
                = EffectiveTolerance * EffectiveTolerance
          /\ history[i].shown = Get(ToolBundle.id_to_point, history[i].nn)
          /\ history[j].queried
          /\ SqrDist(Get(ToolBundle.id_to_point, history[j].nn), MapPoint(history[j]))
                > EffectiveTolerance * EffectiveTolerance
          /\ history[j].shown = NoPoint

\* C14: no resolution ends with an exception, and a resolution in which the
\* primary engine raised has the outcome of a resolution in which it returned
\* an invalid match, at the same position and with the same answer of the
\* index: the same point shown or none, the index asked or not.
C14_PrimaryExceptionIsNoMatch ==
    /\ \A i \in SnapEntries : ~history[i].raised
    /\ \A i, j \in SnapEntries :
          (/\ history[i].match.kind = "raises"
           /\ history[j].match.kind = "invalid"
           /\ history[i].pos = history[j].pos
           /\ history[i].nn = history[j].nn)
          => /\ history[i].shown = history[j].shown
             /\ history[i].queried = history[j].queried
    /\ \A i \in SnapEntries :
          (history[i].match.kind = "raises" /\ i = Len(history))
          => IF Matched(history[i]) = NoPoint
             THEN ~tool[1].marker.visible
             ELSE tool[1].marker = Marker(TRUE, Matched(history[i]))

\* the primary engine raised, and returned an invalid match, at one position:
\* both resolutions showed the same indexed point
C14_Witness ==
    /\ tool # NoTool
    /\ \E i, j \in SnapEntries :
          /\ history[i].match.kind = "raises"
          /\ history[j].match.kind = "invalid"
          /\ history[i].pos = history[j].pos
          /\ history[i].shown # NoPoint
          /\ history[i].shown = history[j].shown

\* C15: nearestNeighbor is called only with the fallback enabled in the tool's
\* settings and a non-empty bundle; a resolution without a primary match in
\* which either fails shows nothing, does not raise and, when it is the latest
\* event, leaves the marker hidden.
C15_FallbackOnlyWhenEnabledAndNonEmpty ==
    \A i \in SnapEntries :
        LET e == history[i]
        IN /\ e.queried => FallbackAvailable
           /\ (e.match.kind # "valid" /\ ~FallbackAvailable)
              => /\ e.shown = NoPoint
                 /\ ~e.raised
                 /\ i = Len(history) => ~tool[1].marker.visible

\* a resolution without a primary match over a bundle that holds points, the
\* fallback disabled: the marker is hidden
C15_Witness ==
    /\ tool # NoTool
    /\ ~tool[1].settings.use_fallback_index
    /\ ~IsEmpty(ToolBundle)
    /\ history # <<>>
    /\ history[Len(history)].kind = "snap"
    /\ history[Len(history)].match.kind = "invalid"
    /\ ~tool[1].marker.visible

\* the moves that end a burst: the latest event, or followed by a resolution
BurstEnds ==
    {i \in 1..Len(history) :
        /\ history[i].kind = "move"
        /\ i = Len(history) \/ history[i + 1].kind = "snap"}

\* C16: a resolution is pending exactly when the latest event is a move; every
\* resolution comes right after a move and uses that move's position; so each
\* burst of moves has one resolution, run or pending, after its last move.
C16_OneResolutionPerBurst ==
    tool # NoTool
    => /\ tool[1].timer.active
            = (history # <<>> /\ history[Len(history)].kind = "move")
       /\ \A i \in SnapEntries :
             /\ i > 1
             /\ history[i - 1].kind = "move"
             /\ history[i].pos = history[i - 1].pos
       /\ Cardinality(SnapEntries) + (IF tool[1].timer.active THEN 1 ELSE 0)
             = Cardinality(BurstEnds)

\* a burst of two moves at different positions, then its one resolution, at
\* the position of the second
C16_Witness ==
    /\ Len(history) = 3
    /\ history[1].kind = "move"
    /\ history[2].kind = "move"
    /\ history[1].pos # history[2].pos
    /\ history[3].kind = "snap"
    /\ history[3].pos = history[2].pos
    /\ ~tool[1].timer.active
    /\ tool[1].settings.debounce_ms > 0

\* C17 (as claimed): with a delay of 0 every move has its own resolution: a
\* move is never followed by another move, and the resolution after it uses
\* its position.
C17_ZeroDelayResolvesEveryMove ==
    (tool # NoTool /\ tool[1].settings.debounce_ms = 0)
    => \A i \in 1..(Len(history) - 1) :
          history[i].kind = "move"
          => /\ history[i + 1].kind = "snap"
             /\ history[i + 1].pos = history[i].pos

\* C18: after a resolution the marker is visible at the matched point when
\* the resolution matched, and hidden when it did not, whatever an earlier
\* resolution showed.
C18_MarkerFollowsLatestResolution ==
    (tool # NoTool /\ history # <<>> /\ history[Len(history)].kind = "snap")
    => LET e == history[Len(history)]
       IN IF Matched(e) = NoPoint
          THEN ~tool[1].marker.visible
          ELSE tool[1].marker = Marker(TRUE, Matched(e))

\* a resolution showed an indexed point and the latest one, without a match,
\* hid the marker, which still has that point for its centre
C18_Witness ==
    /\ tool # NoTool
    /\ history # <<>>
    /\ history[Len(history)].kind = "snap"
    /\ Matched(history[Len(history)]) = NoPoint
    /\ ~tool[1].marker.visible
    /\ tool[1].marker.center \in IndexedPoints
    /\ \E i \in SnapEntries : history[i].shown = tool[1].marker.center

-----------------------------------------------------------------------------
(* The claims on what a run collects *)

RECURSIVE Flatten(_)
\* the concatenation of a sequence of sequences
Flatten(ss) == IF ss = <<>> THEN <<>> ELSE Head(ss) \o Flatten(Tail(ss))

\* the candidate points of a feature of a layer before deduplication: the
\* vertices the geometry holds, and after them the centroid when the layer's
\* kind is polygon and the centroid is computed and not empty
CandidatePoints(f, layer) ==
    IF f.empty THEN <<>>
    ELSE f.verts \o
         (IF /\ BaseWkb(layer.id) = "polygon"
             /\ layer.cond # "centroid_raises"
             /\ f.centroid # NoPoint
          THEN <<f.centroid>>
          ELSE <<>>)

\* the candidate points of a layer that reach the deduplication, in the order
\* of the run: those of the features its request selects, in the map's frame,
\* the points whose transformation failed left out
OfferedPoints(layer) ==
    LET ctx == PrepareLayerContext(layer)
        feats == GetFeatures(layer, ctx.request)
        moved(f) ==
            LET pts == CandidatePoints(f, layer)
            IN SelectSeq([i \in 1..Len(pts) |-> TransformPoint(ctx.transformer, pts[i])],
                         LAMBDA q : q # NoPoint)
    IN Flatten([i \in 1..Len(feats) |-> moved(feats[i])])

\* C20 (as claimed): a run whose only candidate layer is the polygon layer
\* with the one single-ring square has 5 candidate points before
\* deduplication, the 4 corners and the centroid.
C20_SquareYieldsFiveCandidates ==
    \A t \in TaskIds :
        (Completed(t) /\ CandidatesOf(tasks[t]) = <<Layer("parcels", "ok")>>)
        => Len(tasks[t].seen) = 4 + 1

\* C20 (as amended): the points a completed run without a failed layer passes
\* to the deduplication are, layer by layer and feature by feature, all the
\* vertices the geometry holds, a ring's closing vertex among them, and then
\* one centroid when the layer's kind is polygon and the centroid is computed
\* and not empty; for a layer of another kind no centroid is added.  The square
\* has 6 candidates, 5 of them distinct: the 5 vertices of its ring and the
\* centroid.
C20_VerticesPlusCentroidOnPolygons ==
    \A t \in TaskIds :
        LET st == tasks[t]
            cands == CandidatesOf(st)
        IN /\ (Completed(t) /\ \A i \in 1..Len(cands) : ~StreamRaises(cands[i]))
              => [i \in 1..Len(st.seen) |-> st.seen[i].point]
                    = Flatten([i \in 1..Len(cands) |-> OfferedPoints(cands[i])])
           /\ (Completed(t) /\ cands = <<Layer("parcels", "ok")>>)
              => /\ Len(st.seen) = 6
                 /\ Cardinality({st.seen[i].point : i \in 1..Len(st.seen)}) = 5

\* a completed run over the square's layer and a point layer: six candidates
\* of the square, the closing vertex a duplicate and the centroid the last of
\* them, then the points of the point layer without a centroid
C20_Witness ==
    \E t \in TaskIds :
        LET st == tasks[t]
        IN /\ Completed(t)
           /\ CandidatesOf(st) = <<Layer("parcels", "ok"), Layer("notes", "ok")>>
           /\ Len(st.seen) = 7
           /\ st.seen[5] = Seen(PA, "dup", -1)
           /\ st.seen[6].point = PD
           /\ st.seen[7].point = PB

-----------------------------------------------------------------------------
(* The claims on the plugin's settings and its builds *)

\* C21 (as claimed): a step that changes the set of layers of the project
\* starts a build if and only if build_fallback_index is enabled in the
\* settings the dock holds at that moment.
C21_LayerChangeBuildsIffBuildEnabled ==
    [][project' # project
         => ((Len(tasks') = Len(tasks) + 1) <=> ui.build_fallback_index)]_vars

\* the widgets w hold, for the two options, what the claim says a load from
\* the store st gives: the value of the new key when st contains it, the value
\* of the legacy key when st contains that one only
LoadedAsClaimed(st, w) ==
    /\ Contains(st, "use_fallback_index")
          => w.use_fallback_index = ToBool(Value(st, "use_fallback_index", ""))
    /\ (~Contains(st, "use_fallback_index") /\ Contains(st, "snap_centroids"))
          => w.use_fallback_index = ToBool(Value(st, "snap_centroids", ""))
    /\ Contains(st, "build_fallback_index")
          => w.build_fallback_index = ToBool(Value(st, "build_fallback_index", ""))
    /\ (~Contains(st, "build_fallback_index") /\ Contains(st, "build_centroid_index"))
          => w.build_fallback_index = ToBool(Value(st, "build_centroid_index", ""))

\* the store st holds, under the new and the legacy key of each option, the
\* text of the value the widgets w have, and a dock constructed over st has
\* the two options as w has them
SavedAsClaimed(st, w) ==
    /\ Value(st, "use_fallback_index", "") = BoolText(w.use_fallback_index)
    /\ Value(st, "snap_centroids", "") = BoolText(w.use_fallback_index)
    /\ Value(st, "build_fallback_index", "") = BoolText(w.build_fallback_index)
    /\ Value(st, "build_centroid_index", "") = BoolText(w.build_fallback_index)
    /\ NewDock(st).use_fallback_index = w.use_fallback_index
    /\ NewDock(st).build_fallback_index = w.build_fallback_index

\* C22: a dock constructed over a store, at the start or at a restart, has for
\* each of the two options the value of the new key when the store contains
\* it and the value of the legacy key when the store contains only that one;
\* a save leaves the new and the legacy key of each option with the value of
\* the option's widget, so the two agree and a load of the saved store gives
\* the saved values.
C22_NewKeyFirstBothKeysSaved ==
    /\ LoadedAsClaimed(store, ui)
    /\ [][/\ Restart => LoadedAsClaimed(store, ui')
          /\ OnApplyClicked => SavedAsClaimed(store', ui)]_vars

\* a store the dock saved (the delay it holds is the default's, which no
\* initial store holds) with the fallback off and the automatic build on, and
\* a dock constructed over it at a restart (the tool of the apply is gone)
\* that has the two options as they were saved
C22_Witness ==
    /\ tool = NoTool
    /\ Value(store, "debounce_ms", "") = "10"
    /\ Value(store, "use_fallback_index", "") = "false"
    /\ Value(store, "snap_centroids", "") = "false"
    /\ Value(store, "build_fallback_index", "") = "true"
    /\ Value(store, "build_centroid_index", "") = "true"
    /\ ui = NewDock(store)
    /\ ~ui.use_fallback_index /\ ui.build_fallback_index

\* the defaults as the claim lists them
ClaimedDefaults ==
    [tolerance_value |-> 12, tolerance_units |-> "px", debounce_ms |-> 10,
     snap_vertices |-> TRUE, snap_segments |-> TRUE,
     use_fallback_index |-> TRUE, build_fallback_index |-> TRUE]

\* C30 (as claimed): a dock constructed over a store that holds none of the
\* plugin's keys, at the start or at a restart, has every option at its
\* default: 12 pixels, 10 ms, vertices, segments, the fallback and the
\* automatic build enabled.
C30_EmptyStoreGivesDefaults ==
    /\ store = {} => ui = ClaimedDefaults
    /\ [][(Restart /\ store = {}) => ui' = ClaimedDefaults]_vars

-----------------------------------------------------------------------------
(* The claims on cancellation, candidate layers and transforms *)

Running == {"start", "layers", "features", "map"}

\* the next step of the run of the task record st reaches a cancellation
\* check: a candidate layer is still to be started (line 82), or the layer's
\* iterator yields another feature (line 89)
AtPoll(st) ==
    \/ /\ st.pc = "layers"
       /\ \E k \in st.li..Len(st.layers) :
             /\ LayerIfCandidate(st.layers[k], st.visible_ids) = "layer"
             /\ \A j \in st.li..(k - 1) :
                   LayerIfCandidate(st.layers[j], st.visible_ids) = "none"
    \/ /\ st.pc = "features"
       /\ st.fetched < Len(st.feats)
       /\ IterRaisesAt(st.layers[st.layer]) # st.fetched + 1

\* C23 (as claimed): a run that has returned and during which cancellation was
\* requested has returned false, and the task's result bundle and error list
\* are in their initial empty state.
C23_CancelledRunReturnsFalse ==
    \A t \in TaskIds :
        (tasks[t].canceled /\ tasks[t].pc \in {"true", "false"})
        => /\ tasks[t].pc = "false"
           /\ Bundle(ResultBundle(t)) = NewBundle
           /\ tasks[t].errors = <<>>

\* C23 (as amended): a step of a run for which cancellation has been requested
\* starts no further feature and no further layer and passes no further point
\* to the deduplication; it returns false exactly when it reaches a poll, one
\* before a candidate layer or before a feature, and then the task's result
\* bundle and error list are in their initial empty state.
C23_CancelSeenAtNextPoll ==
    [][\A t \in TaskIds :
          (tasks[t].canceled /\ tasks[t].pc \in Running /\ tasks'[t] # tasks[t])
          => /\ tasks'[t].seen = tasks[t].seen
             /\ tasks'[t].pc # "features"
             /\ (tasks'[t].pc = "false") <=> AtPoll(tasks[t])
             /\ tasks'[t].pc = "false"
                   => /\ bundles'[ResultBundle(t) + 1] = NewBundle
                      /\ tasks'[t].errors = <<>>]_vars

\* a run over two candidate layers or more that returned false after points
\* had been collected: its bundle is the empty bundle of __init__
C23_Witness ==
    \E t \in TaskIds :
        /\ tasks[t].canceled
        /\ tasks[t].pc = "false"
        /\ Len(CandidatesOf(tasks[t])) >= 2
        /\ \E i \in 1..Len(tasks[t].seen) : tasks[t].seen[i].outcome = "ok"
        /\ Bundle(ResultBundle(t)) = NewBundle
        /\ tasks[t].errors = <<>>

\* the four conditions of the claim on a layer of a run with only_visible set:
\* in the canvas's visible set, a vector layer, valid, of a geometry kind that
\* is not "none"; a layer whose kind cannot be read has no kind to pass with
MeetsConditions(layer) ==
    /\ layer.cond # "hidden"
    /\ layer.cond # "raster"
    /\ layer.cond # "invalid"
    /\ layer.cond \notin {"nogeom", "wkbType_raises"}

\* C24: in a completed run the points passed to the deduplication are those of
\* the layers that meet the four conditions, layer by layer in the project's
\* order (shown for the runs in which no layer's streaming fails), and every
\* error message is that of a layer meeting them: a layer that fails one
\* contributes no point and no error.
C24_ProcessedIffCandidate ==
    \A t \in TaskIds :
        Completed(t)
        => LET st == tasks[t]
               met == SelectSeq(st.layers, MeetsConditions)
           IN /\ (\A i \in 1..Len(met) : ~StreamRaises(met[i]))
                    => [i \in 1..Len(st.seen) |-> st.seen[i].point]
                          = Flatten([i \in 1..Len(met) |-> OfferedPoints(met[i])])
              /\ \A i \in 1..Len(st.errors) :
                    \E j \in 1..Len(met) : met[j].id = st.errors[i]

\* a completed run over three layers, the polygon layer invalid between the
\* other two: the points of those two were collected, none of the square's
C24_Witness ==
    \E t \in TaskIds :
        LET st == tasks[t]
        IN /\ Completed(t)
           /\ Len(st.layers) = 3
           /\ st.layers[2] = Layer("parcels", "invalid")
           /\ Len(st.seen) >= 3
           /\ \A i \in 1..Len(st.seen) : st.seen[i].point \notin {PC, PE, PF}
           /\ st.errors = <<>>

\* the vertices of the features of a layer that a request with the viewport's
\* rectangle, its numbers read in the layer's own frame, selects
RawSelectedVertices(layer) ==
    LET fs == BaseFeatures(layer.id)
    IN UNION {{fs[i].verts[j] : j \in 1..Len(fs[i].verts)} :
                 i \in {k \in 1..Len(fs) : fs[k].raw_in_extent /\ ~fs[k].empty}}

\* the vertices of all features of a layer
AllVertices(layer) ==
    LET fs == BaseFeatures(layer.id)
    IN UNION {{fs[i].verts[j] : j \in 1..Len(fs[i].verts)} : i \in 1..Len(fs)}

SeenPoints(st) == {st.seen[i].point : i \in 1..Len(st.seen)}

\* C25: in a completed run, a layer in another frame than the map's whose
\* transforms could not be constructed has no error recorded; the points of
\* the features its request selects were passed on with the coordinates they
\* have in the layer, none with transformed coordinates, and, no insertion
\* having raised, the bundle holds their keys.
C25_FailedTransformCtorPassesPointsThrough ==
    \A t \in TaskIds :
        Completed(t)
        => LET st == tasks[t]
               keys == {Rounded(e[2]) : e \in Bundle(ResultBundle(t)).id_to_point}
           IN \A i \in 1..Len(st.layers) :
                 (st.layers[i].cond = "ctor_raises"
                     /\ BaseCrs(st.layers[i].id) # TargetCrs)
                 => /\ \A k \in 1..Len(st.errors) : st.errors[k] # st.layers[i].id
                    /\ RawSelectedVertices(st.layers[i]) \subseteq SeenPoints(st)
                    /\ \A v \in AllVertices(st.layers[i]) :
                          Forward(v) \notin SeenPoints(st)
                    /\ NoInsertRaised(st)
                          => \A v \in RawSelectedVertices(st.layers[i]) :
                                Rounded(v) \in keys

\* a completed run over the one layer in another frame, its transforms not
\* constructed: PA and PF are in the bundle as the layer holds them, no error
\* recorded
C25_Witness ==
    \E t \in TaskIds :
        /\ Completed(t)
        /\ tasks[t].layers = <<Layer("wells", "ctor_raises")>>
        /\ tasks[t].seen = <<Seen(PA, "ok", 0), Seen(PF, "ok", 1)>>
        /\ tasks[t].errors = <<>>
        /\ Bundle(ResultBundle(t)).id_to_point = {<<0, PA>>, <<1, PF>>}

\* the vertices of the features of a layer that a request with the viewport's
\* rectangle in the layer's frame selects
SelectedVertices(layer) ==
    LET fs == BaseFeatures(layer.id)
    IN UNION {{fs[i].verts[j] : j \in 1..Len(fs[i].verts)} :
                 i \in {k \in 1..Len(fs) : fs[k].in_extent /\ ~fs[k].empty}}

\* C26: the insertFeature calls of a run carry consecutive ids whatever points
\* were dropped; and in a completed run, for a layer in another frame on which
\* the transform of some points raises: no error is recorded for it, a point
\* whose transform raised was passed on neither transformed nor (no other
\* layer holding it) as it was, and every other point of its selected
\* features, the later points of the same feature among them, was passed on
\* transformed and, no insertion having raised, has its key in the bundle.
C26_FailedPointTransformDropsPoint ==
    \A t \in TaskIds :
        LET st == tasks[t]
            calls == InsertCalls(st)
            keys == {Rounded(e[2]) : e \in Bundle(ResultBundle(t)).id_to_point}
        IN /\ \A k \in 1..Len(calls) : calls[k].id = k - 1
           /\ Completed(t)
              => \A i \in 1..Len(st.layers) :
                    (st.layers[i].cond = "transform_raises"
                        /\ BaseCrs(st.layers[i].id) # TargetCrs)
                    => /\ \A k \in 1..Len(st.errors) : st.errors[k] # st.layers[i].id
                       /\ \A v \in SelectedVertices(st.layers[i]) \cap BadTransformPoints :
                             /\ Forward(v) \notin SeenPoints(st)
                             /\ (\A j \in 1..Len(st.layers) :
                                    j # i => v \notin AllVertices(st.layers[j]))
                                   => v \notin SeenPoints(st)
                       /\ \A v \in SelectedVertices(st.layers[i]) \ BadTransformPoints :
                             /\ Forward(v) \in SeenPoints(st)
                             /\ NoInsertRaised(st) => Rounded(Forward(v)) \in keys

\* a completed run over the layer in another frame alone: the transform of PA
\* raised, and PF, the next point of the same feature, has the id 0 and PB, of
\* the next feature, the id 1
C26_Witness ==
    \E t \in TaskIds :
        /\ Completed(t)
        /\ tasks[t].layers = <<Layer("wells", "transform_raises")>>
        /\ tasks[t].seen = <<Seen(Forward(PF), "ok", 0), Seen(Forward(PB), "ok", 1)>>
        /\ tasks[t].errors = <<>>
        /\ Bundle(ResultBundle(t)).id_to_point
              = {<<0, Forward(PF)>>, <<1, Forward(PB)>>}

-----------------------------------------------------------------------------
(* The claims on the tool's tolerance and its deactivation *)

\* the tolerance in units of 1e-7 that the config given to the primary engine
\* stands for at the scale mupp
ConfigTolerance(cfg, mupp) ==
    IF cfg.units = "Pixels" THEN cfg.tolerance * mupp ELSE cfg.tolerance * MapUnit

\* C27: the config of the primary engine has the tolerance value of the
\* tool's settings and their unit; and a resolution that asked the index and
\* got a neighbour shows it exactly when its distance from the pointer's map
\* point is at most the value times the canvas's map units per pixel at that
\* moment when the unit is pixels, and at most the value in map units when the
\* unit is map units.
C27_FallbackToleranceInConfiguredUnit ==
    tool # NoTool
    => /\ tool[1].snap_cfg.tolerance = tool[1].settings.tolerance_value
       /\ (tool[1].snap_cfg.units = "Pixels") = (tool[1].settings.tolerance_units = "px")
       /\ (tool[1].snap_cfg.units = "MapUnits") = (tool[1].settings.tolerance_units = "mu")
       /\ \A i \in SnapEntries :
             LET e == history[i]
                 candidate == Get(ToolBundle.id_to_point, e.nn)
                 map_pt == <<e.pos[1] * e.mupp, CanvasTop - e.pos[2] * e.mupp>>
             IN (e.queried /\ e.nn # -1)
                => (e.shown = candidate)
                      = AtMostSquare(SqrDist(candidate, map_pt),
                                     ConfigTolerance(tool[1].snap_cfg, e.mupp))

\* a tolerance of 5 pixels: at one pixel position the neighbour the index
\* gave was too far at the scale 1 and was not shown, and after a zoom to the
\* scale 2 the neighbour it gave was shown
C27_Witness ==
    /\ tool # NoTool
    /\ tool[1].settings.tolerance_units = "px"
    /\ \E i, j \in SnapEntries :
          /\ i < j
          /\ history[i].pos = history[j].pos
          /\ history[i].mupp = 1 /\ history[j].mupp = 2
          /\ history[i].queried /\ history[i].shown = NoPoint
          /\ history[j].queried /\ history[j].shown # NoPoint

\* C28 (as claimed): the step that unloads the plugin leaves every build that
\* is running with its cancellation requested, and no step after the unload
\* changes the bundle the plugin holds or the bundle a tool holds.
C28_UnloadCancelsRunningBuild ==
    [][/\ (~Happened("unload") /\ Happened("unload")')
            => \A t \in TaskIds : tasks[t].pc \in Running => tasks'[t].canceled
       /\ Happened("unload")
            => /\ index_bundle' = index_bundle
               /\ \A i \in 1..Len(tool) : tool'[i].bundle = tool[i].bundle]_vars

\* C29 (as claimed): once the tool has been deactivated its marker is hidden,
\* whatever timer was pending when it was deactivated.
C29_MarkerHiddenAfterDeactivate ==
    (tool # NoTool /\ Happened("deactivate")) => ~tool[1].marker.visible

====
